---- MODULE Spec2Model ----
(***************************************************************************)
(* Expense controller (src/src/controllers/expense.controller.js): the     *)
(* CRUD handlers over the Expense collection, the cache-aside list query   *)
(* getExpenses, and the statistics / summary aggregations.                 *)
(*                                                                         *)
(* Encoding of JavaScript values: a number or date that is undefined is    *)
(* Undef, a string that is undefined is NoStr.  A date is the integer      *)
(* yyyymmdd, so that integer order is chronological order.                 *)
(***************************************************************************)
EXTENDS Integers, Sequences, FiniteSets, TLC

VARIABLES
  store,    \* the Expense collection: a set of documents
  nextId,   \* the next _id the collection hands out
  cache,    \* the Redis keyspace: a set of entries, at most one per key
  reqs,     \* the getExpenses requests in flight (past the cache lookup)
  started,  \* how many getExpenses requests were issued
  now,      \* the clock, in seconds
  ticks,    \* how many times the clock advanced
  resp,     \* the last response sent by a handler
  served    \* history: the pages of the store-sourced list responses of the last
            \* TTL seconds, per cache key

vars == <<store, nextId, cache, reqs, started, now, ticks, resp, served>>

----------------------------------------------------------------------------
(* Bounds of the model *)

MaxId == 2          \* ids handed out by the collection: 1..MaxId
MaxAmount == 2      \* amounts submitted: 0..MaxAmount
NumDates == 2       \* calendar dates in use: DateOf(1)..DateOf(NumDates)
MaxReq == 2         \* list queries in flight at the same time
MaxStarted == 3     \* list queries issued in one behaviour
MaxTicks == 2       \* clock advances in one behaviour

(* Program constants *)

TTL == 300
DefaultPage == 1
DefaultLimit == 10
TopCategories == 3

Undef == -1
NoStr == "undefined"

Users == {"uA", "uB"}
Ids == 1..MaxId
Categories == {"food", "rent"}
Payments == {"cash"}
Descriptions == {"d"}

\* i = 1, 2 fall in January 2024, i = 3, 4 in February 2024, ...
DateOf(i) == 20240000 + (((i - 1) \div 2) + 1) * 100 + ((i - 1) % 2) * 10 + 5
Dates == {DateOf(i) : i \in 1..NumDates}
Epoch == 19700101

----------------------------------------------------------------------------
(* Generic helpers *)

RECURSIVE SumSeq(_)
SumSeq(s) == IF s = <<>> THEN 0 ELSE Head(s) + SumSeq(Tail(s))

RECURSIVE SumAmounts(_)
SumAmounts(S) ==
  IF S = {} THEN 0
  ELSE LET r == CHOOSE x \in S : TRUE IN r.amount + SumAmounts(S \ {r})

\* all orders in which the elements of S can be enumerated
Perms(S) ==
  {s \in [1..Cardinality(S) -> S] : \A i, j \in 1..Cardinality(S) : i # j => s[i] # s[j]}

\* JavaScript !v for a number and for a string
FalsyNum(v) == v = Undef \/ v = 0
FalsyStr(v) == v = NoStr \/ v = ""

Min(a, b) == IF a < b THEN a ELSE b
Max(a, b) == IF a > b THEN a ELSE b

----------------------------------------------------------------------------
(* The request of getExpenses: req.query, the cache key, the store query *)

ParamNames == <<"category", "startDate", "endDate", "paymentMethod", "page", "limit">>

RECURSIVE Reverse(_)
Reverse(s) == IF s = <<>> THEN <<>> ELSE Append(Reverse(Tail(s)), Head(s))

RECURSIVE Filter(_, _)
Filter(s, keep) ==
  IF s = <<>> THEN <<>>
  ELSE IF Head(s) \in keep THEN <<Head(s)>> \o Filter(Tail(s), keep)
       ELSE Filter(Tail(s), keep)

\* req.query: the parameters the client sent, in the order it sent them (order);
\* a parameter it did not send is undefined
MkQuery(c, sd, ed, pm, pg, lim, rev) ==
  LET present == {ParamNames[i] : i \in {j \in 1..6 :
                     \/ j = 1 /\ c # NoStr
                     \/ j = 2 /\ sd # Undef
                     \/ j = 3 /\ ed # Undef
                     \/ j = 4 /\ pm # NoStr
                     \/ j = 5 /\ pg # Undef
                     \/ j = 6 /\ lim # Undef}}
      natural == Filter(ParamNames, present)
  IN [category |-> c, startDate |-> sd, endDate |-> ed, paymentMethod |-> pm,
      page |-> pg, limit |-> lim,
      order |-> IF rev THEN Reverse(natural) ELSE natural]

NoQuery == MkQuery(NoStr, Undef, Undef, NoStr, Undef, Undef, FALSE)

\* one "name":value member of the JSON text
Member(name, q) ==
  [name |-> name,
   str |-> IF name = "category" THEN q.category
           ELSE IF name = "paymentMethod" THEN q.paymentMethod ELSE NoStr,
   num |-> IF name = "startDate" THEN q.startDate
           ELSE IF name = "endDate" THEN q.endDate
           ELSE IF name = "page" THEN q.page
           ELSE IF name = "limit" THEN q.limit ELSE Undef]

\* JSON.stringify(req.query): the members in the object's own key order
StringifyQuery(q) == [i \in 1..Len(q.order) |-> Member(q.order[i], q)]

\* the key as it would be without ${userId}
CacheKeyNoUser(u, q) == [prefix |-> "expenses", user |-> "", query |-> StringifyQuery(q)]

\* src line 41: `expenses:${userId}:${JSON.stringify(req.query)}`
CacheKey(u, q) == [prefix |-> "expenses", user |-> u, query |-> StringifyQuery(q)]

\* src lines 37-38: the destructuring defaults
PageOf(q) == IF q.page = Undef THEN DefaultPage ELSE q.page
LimitOf(q) == IF q.limit = Undef THEN DefaultLimit ELSE q.limit

\* src lines 56-61: the documents the filter object selects
MatchesQuery(r, u, q) ==
  /\ r.user = u
  /\ (~FalsyStr(q.category) => r.category = q.category)
  /\ (~FalsyStr(q.paymentMethod) => r.paymentMethod = q.paymentMethod)
  /\ ((~FalsyNum(q.startDate) /\ ~FalsyNum(q.endDate))
        => (r.date >= q.startDate /\ r.date <= q.endDate))

Matching(S, u, q) == {r \in S : MatchesQuery(r, u, q)}

\* src line 64: sort({date: -1}); documents of equal date come in any order
SortedByDateDesc(S) ==
  {s \in Perms(S) : \A i, j \in 1..Cardinality(S) : i < j => s[i].date >= s[j].date}

\* the page as it would be without .skip()
SkipLimitNoSkip(s, q) == SubSeq(s, 1, Min(LimitOf(q), Len(s)))

\* src lines 65-66: skip((page - 1) * limit).limit(Number(limit))
SkipLimit(s, q) ==
  LET skip == (PageOf(q) - 1) * LimitOf(q)
  IN SubSeq(s, skip + 1, Min(skip + LimitOf(q), Len(s)))

\* src line 74: Math.ceil(total / limit), limit >= 1
TotalPages(total, q) == (total + LimitOf(q) - 1) \div LimitOf(q)

\* a document as JSON text writes it: the Date becomes its ISO string
DocToJSON(r) ==
  [id |-> r.id, user |-> r.user, amount |-> r.amount, description |-> r.description,
   date |-> [iso |-> r.date], category |-> r.category,
   paymentMethod |-> r.paymentMethod]

\* src lines 70-75 and 78: JSON.stringify(result)
StringifyResult(expenses, total, q) ==
  [expenses |-> [i \in 1..Len(expenses) |-> DocToJSON(expenses[i])],
   total |-> total, page |-> PageOf(q), totalPages |-> TotalPages(total, q)]

NoPayload == [expenses |-> <<>>, total |-> 0, page |-> 0, totalPages |-> 0]

\* the expiry as it would be with twice and with half the seconds
ExpiryDouble(t) == t + 2 * TTL

ExpiryHalf(t) == t + TTL \div 2

\* src line 78: setEx(cacheKey, 300, ...): the entry is gone 300 seconds later
Expiry(t) == t + TTL

\* src lines 42-44: redis GET answers a key that is set and has not expired
LiveEntries(key) == {e \in cache : e.key = key /\ now < e.exp}

OwnedBy(u, S) == {r \in S : r.user = u}

\* History only, read by no handler: when u's documents change, every list
\* request of u that has read them and has not answered yet is marked with the
\* time of the change.
MarkReqs(u, S2) ==
  IF OwnedBy(u, S2) = OwnedBy(u, store) THEN reqs
  ELSE {IF r.user = u /\ r.findAt # Undef /\ r.staleAt = Undef
        THEN [r EXCEPT !.staleAt = now] ELSE r : r \in reqs}

\* what the mutating handlers leave alone
Untouched == <<cache, started, now, ticks, served>>
Unchanged == <<store, nextId, cache, reqs, started, now, ticks, served>>

----------------------------------------------------------------------------
(* addExpense *)

MissingField(body) ==
  \/ FalsyNum(body.amount)
  \/ FalsyStr(body.description)
  \/ FalsyNum(body.date)
  \/ FalsyStr(body.category)
  \/ FalsyStr(body.paymentMethod)

NewExpense(id, u, b) ==
  [id |-> id, user |-> u, amount |-> b.amount, description |-> b.description,
   date |-> b.date, category |-> b.category, paymentMethod |-> b.paymentMethod]

Created(u, body) == NewExpense(nextId, u, body)

addExpense(u, body) ==
  \/ /\ MissingField(body)
     /\ resp' = [op |-> "addExpense", user |-> u, status |-> 400]
     /\ UNCHANGED Unchanged
  \/ /\ ~MissingField(body)
     /\ nextId <= MaxId
     /\ store' = store \cup {Created(u, body)}
     /\ nextId' = nextId + 1
     /\ reqs' = MarkReqs(u, store')
     /\ resp' = [op |-> "addExpense", user |-> u, status |-> 201,
                 expense |-> Created(u, body)]
     /\ UNCHANGED Untouched

----------------------------------------------------------------------------
(* updateExpense, deleteExpense, bulkDeleteExpenses, bulkUploadExpenses *)

\* the filter as it would be without user: userId
FindOneAnyUser(id, u) == {r \in store : r.id = id}

\* src lines 91, 109: the filter {_id: id, user: userId}
FindOne(id, u) == {r \in store : r.id = id /\ r.user = u}

\* findOneAndUpdate(..., {amount, description, date, category, paymentMethod})
Updated(r, b) ==
  [r EXCEPT !.amount = b.amount, !.description = b.description, !.date = b.date,
            !.category = b.category, !.paymentMethod = b.paymentMethod]

updateExpense(u, id, body) ==
  \/ /\ FindOne(id, u) = {}
     /\ resp' = [op |-> "updateExpense", user |-> u, status |-> 404, id |-> id]
     /\ UNCHANGED Unchanged
  \/ \E r \in FindOne(id, u) :
       /\ store' = (store \ {r}) \cup {Updated(r, body)}
       /\ reqs' = MarkReqs(u, store')
       /\ resp' = [op |-> "updateExpense", user |-> u, status |-> 200, id |-> id,
                   expense |-> Updated(r, body)]
       /\ UNCHANGED <<nextId, cache, started, now, ticks, served>>

deleteExpense(u, id) ==
  \/ /\ FindOne(id, u) = {}
     /\ resp' = [op |-> "deleteExpense", user |-> u, status |-> 404, id |-> id]
     /\ UNCHANGED Unchanged
  \/ \E r \in FindOne(id, u) :
       /\ store' = store \ {r}
       /\ reqs' = MarkReqs(u, store')
       /\ resp' = [op |-> "deleteExpense", user |-> u, status |-> 200, id |-> id]
       /\ UNCHANGED <<nextId, cache, started, now, ticks, served>>

\* req.body.ids: undefined, something that is no array, or an array of ids
NoIds == [kind |-> "undefined", ids |-> {}]
NotAnArray == [kind |-> "string", ids |-> {}]
IdArray(S) == [kind |-> "array", ids |-> S]

\* src line 266
InvalidIds(ids) == ids.kind # "array" \/ ids.ids = {}

\* the filter as it would be without user: userId
DeleteManyAnyUser(ids, u) == {r \in store : r.id \in ids.ids}

\* src lines 270-273: the filter {_id: {$in: ids}, user: userId}
DeleteMany(ids, u) == {r \in store : r.id \in ids.ids /\ r.user = u}

bulkDeleteExpenses(u, ids) ==
  \/ /\ InvalidIds(ids)
     /\ resp' = [op |-> "bulkDeleteExpenses", user |-> u, status |-> 400, ids |-> ids]
     /\ UNCHANGED Unchanged
  \/ /\ ~InvalidIds(ids)
     /\ store' = store \ DeleteMany(ids, u)
     /\ reqs' = MarkReqs(u, store')
     /\ resp' = [op |-> "bulkDeleteExpenses", user |-> u, status |-> 200, ids |-> ids,
                 deletedCount |-> Cardinality(DeleteMany(ids, u))]
     /\ UNCHANGED <<nextId, cache, started, now, ticks, served>>

\* req.file: undefined, or the rows the CSV parser reads from the buffer
NoFile == [present |-> FALSE, rows |-> <<>>]
CsvFile(rows) == [present |-> TRUE, rows |-> rows]

\* src lines 240-249: one document per row, inserted in the order of the rows
Inserted(u, rows) == {NewExpense(nextId + i - 1, u, rows[i]) : i \in 1..Len(rows)}

bulkUploadExpenses(u, file) ==
  \/ /\ ~file.present
     /\ resp' = [op |-> "bulkUploadExpenses", user |-> u, status |-> 400]
     /\ UNCHANGED Unchanged
  \/ /\ file.present
     /\ nextId + Len(file.rows) - 1 <= MaxId
     /\ store' = store \cup Inserted(u, file.rows)
     /\ nextId' = nextId + Len(file.rows)
     /\ reqs' = MarkReqs(u, store')
     /\ resp' = [op |-> "bulkUploadExpenses", user |-> u, status |-> 201,
                 count |-> Len(file.rows)]
     /\ UNCHANGED Untouched

----------------------------------------------------------------------------
(* getExpenses: one action per store or cache call the handler awaits *)

\* History: the pages that store-sourced responses for key carried less than TTL
\* seconds ago, and the one among them that was written to the cache last
Priors(key) == {c.val : c \in {d \in served : d.key = key /\ now < d.at + TTL}}
Latest(key) == {c.val : c \in {d \in served : d.key = key /\ d.last /\ now < d.at + TTL}}

\* The response to a list query.  at, findAt, setAt, staleAt, priors and latest
\* are history: when the query was issued; when the page was read from the store
\* and when it was written to the cache; when the owner's documents first changed
\* between the two; Priors and Latest of the key when the query was issued.
ListResponse(n, u, q, status, source) ==
  [op |-> "getExpenses", user |-> u, status |-> status, n |-> n, q |-> q,
   source |-> source, payload |-> NoPayload,
   at |-> now, findAt |-> Undef, setAt |-> Undef, staleAt |-> Undef,
   priors |-> Priors(CacheKey(u, q)), latest |-> Latest(CacheKey(u, q))]

\* src lines 41-54: the cache lookup.  up: the Redis client answers; when it does
\* not, the awaited promise rejects and the handler throws.
CacheGet(u, q, up, cap) ==
  /\ started < cap
  /\ Cardinality(reqs) < MaxReq
  /\ started' = started + 1
  /\ LET n == started + 1
         key == CacheKey(u, q)
         hit == LiveEntries(key)
     IN \/ /\ ~up
           /\ resp' = ListResponse(n, u, q, 500, "redis.get")
           /\ UNCHANGED reqs
        \/ /\ up
           /\ hit = {}
           /\ reqs' = reqs \cup
                {[n |-> n, pc |-> "find", user |-> u, q |-> q, expenses |-> <<>>,
                  total |-> 0, at |-> now, findAt |-> Undef, staleAt |-> Undef,
                  priors |-> Priors(key), latest |-> Latest(key)]}
           /\ UNCHANGED resp
        \/ /\ up
           /\ \E e \in hit :
                resp' = [ListResponse(n, u, q, 200, "cache") EXCEPT
                           !.payload = e.val, !.findAt = e.findAt, !.setAt = e.setAt,
                           !.staleAt = e.staleAt]
           /\ UNCHANGED reqs
  /\ UNCHANGED <<store, nextId, cache, now, ticks, served>>

\* src lines 56-66: Expense.find(query).sort().skip().limit()
Find(r) ==
  /\ r.pc = "find"
  /\ \E s \in SortedByDateDesc(Matching(store, r.user, r.q)) :
       reqs' = (reqs \ {r}) \cup
                 {[r EXCEPT !.pc = "count", !.findAt = now,
                            !.expenses = SkipLimit(s, r.q)]}
  /\ UNCHANGED <<store, nextId, cache, started, now, ticks, resp, served>>

\* src line 68: Expense.countDocuments(query)
Count(r) ==
  /\ r.pc = "count"
  /\ reqs' = (reqs \ {r}) \cup
               {[r EXCEPT !.pc = "set",
                          !.total = Cardinality(Matching(store, r.user, r.q))]}
  /\ UNCHANGED <<store, nextId, cache, started, now, ticks, resp, served>>

\* src lines 70-82: compose the result, SETEX it, answer 200
SetEx(r, up) ==
  /\ r.pc = "set"
  /\ reqs' = reqs \ {r}
  /\ LET key == CacheKey(r.user, r.q)
         val == StringifyResult(r.expenses, r.total, r.q)
         answer == [ListResponse(r.n, r.user, r.q, 200, "store") EXCEPT
                      !.payload = val, !.at = r.at, !.findAt = r.findAt,
                      !.setAt = now, !.staleAt = r.staleAt, !.priors = r.priors,
                      !.latest = r.latest]
     IN \/ /\ ~up
           /\ resp' = [answer EXCEPT !.status = 500, !.source = "redis.setEx",
                                     !.payload = NoPayload]
           /\ UNCHANGED <<cache, served>>
        \/ /\ up
           /\ cache' = {e \in cache : e.key # key}
                         \cup {[key |-> key, val |-> val, exp |-> Expiry(now),
                                findAt |-> r.findAt, setAt |-> now,
                                staleAt |-> r.staleAt]}
           /\ resp' = answer
           /\ served' = {c \in served : c.key # key}
                          \cup {[c EXCEPT !.last = FALSE] :
                                  c \in {d \in served : d.key = key /\ d.val # val}}
                          \cup {[key |-> key, val |-> val, at |-> now, last |-> TRUE]}
  /\ UNCHANGED <<store, nextId, started, now, ticks>>

\* the clock advances: by a moment first, then by just under TTL seconds each
\* time; Redis drops the entries that expired
Moment == 2
Advance(k) == IF k = 1 THEN Moment ELSE TTL - 1

Tick ==
  /\ ticks < MaxTicks
  /\ now' = now + Advance(ticks + 1)
  /\ ticks' = ticks + 1
  /\ cache' = {e \in cache : now' < e.exp}
  /\ served' = {c \in served : now' < c.at + TTL}
  /\ UNCHANGED <<store, nextId, reqs, started, resp>>

----------------------------------------------------------------------------
(* getExpenseStatistics *)

YearOf(d) == d \div 10000
MonthOf(d) == (d \div 100) % 100

\* $concat: [{$toString: year}, "-", {$toString: month}]
MonthKey(d) == ToString(YearOf(d)) \o "-" \o ToString(MonthOf(d))

\* src lines 124-133: the $match stage
MatchStage(S, u, sd, ed, today) ==
  {r \in S : /\ r.user = u
             /\ r.date >= (IF FalsyNum(sd) THEN Epoch ELSE sd)
             /\ r.date <= (IF FalsyNum(ed) THEN today ELSE ed)}

\* "$$value.<name>": the field called name of the object value, and nothing
\* (which $sum and $ifNull count as 0) when value has no such field
FieldOr0(value, name) == IF name \in DOMAIN value THEN value[name] ELSE 0

\* $mergeObjects: [value, {key: v}]
MergeObjects(value, key, v) ==
  [k \in DOMAIN value \cup {key} |-> IF k = key THEN v ELSE value[k]]

EmptyObject == [k \in {} |-> 0]

\* src lines 159-174: $reduce over the pushed {category, amount}; what is added to
\* the amount is "$$value.$$this.category": a field of that literal name
RECURSIVE ReduceCategory(_, _)
ReduceCategory(input, value) ==
  IF input = <<>> THEN value
  ELSE LET this == Head(input)
       IN ReduceCategory(Tail(input),
            MergeObjects(value, this.category,
                         FieldOr0(value, "$$this.category") + this.amount))

\* src lines 175-211: the same over {month, year, amount}, reading
\* "$$value.$$monthYear"
RECURSIVE ReduceMonth(_, _)
ReduceMonth(input, value) ==
  IF input = <<>> THEN value
  ELSE LET this == Head(input)
       IN ReduceMonth(Tail(input),
            MergeObjects(value, MonthKey(this.date),
                         FieldOr0(value, "$$monthYear") + this.amount))

StatsKeys == {"totalExpenses", "averageExpense", "expensesByCategory", "expensesByMonth"}

\* src lines 134-213: the one group the $group stage makes of the matched
\* documents, pushed in the order docs, then projected
Statistics(docs) ==
  [keys |-> StatsKeys,
   totalExpenses |-> SumSeq([i \in 1..Len(docs) |-> docs[i].amount]),
   averageExpense |-> [sum |-> SumSeq([i \in 1..Len(docs) |-> docs[i].amount]),
                       count |-> Len(docs)],
   expensesByCategory |-> ReduceCategory(docs, EmptyObject),
   expensesByMonth |-> ReduceMonth(docs, EmptyObject)]

\* src line 221: statistics[0] || {}
EmptyStatistics ==
  [keys |-> {}, totalExpenses |-> Undef, averageExpense |-> [sum |-> 0, count |-> 0],
   expensesByCategory |-> EmptyObject, expensesByMonth |-> EmptyObject]

\* today: the date new Date() gives.  accepted: whether the server accepts the
\* pipeline; an object whose field name begins with "$" ("$$this.category",
\* "$$monthYear") is one a server may refuse as an unknown expression, and then
\* aggregate() rejects and the handler throws.
getExpenseStatistics(u, sd, ed, today, accepted) ==
  /\ LET matched == MatchStage(store, u, sd, ed, today)
     IN \/ /\ ~accepted
           /\ resp' = [op |-> "getExpenseStatistics", user |-> u, status |-> 500,
                       matched |-> matched]
        \/ /\ accepted
           /\ matched = {}
           /\ resp' = [op |-> "getExpenseStatistics", user |-> u, status |-> 200,
                       matched |-> matched, stats |-> EmptyStatistics]
        \/ /\ accepted
           /\ matched # {}
           /\ \E docs \in Perms(matched) :
                resp' = [op |-> "getExpenseStatistics", user |-> u, status |-> 200,
                         matched |-> matched, stats |-> Statistics(docs)]
  /\ UNCHANGED Unchanged

----------------------------------------------------------------------------
(* getExpenseSummary *)

\* src lines 292, 298: {$match: {user: userId}}
SummaryMatch(S, u) == {r \in S : r.user = u}

\* src line 299: {$group: {_id: "$category", total: {$sum: "$amount"}}}
GroupByCategory(S) ==
  {[name |-> c, total |-> SumAmounts({r \in S : r.category = c})] :
     c \in {r.category : r \in S}}

\* src line 300: {$sort: {total: -1}}; groups of equal total come in any order
SortedByTotalDesc(G) ==
  {s \in Perms(G) : \A i, j \in 1..Cardinality(G) : i < j => s[i].total >= s[j].total}

getExpenseSummary(u) ==
  /\ LET matched == SummaryMatch(store, u)
     IN \E s \in SortedByTotalDesc(GroupByCategory(matched)) :
          resp' = [op |-> "getExpenseSummary", user |-> u, status |-> 200,
                   matched |-> matched,
                   \* src lines 291-294, 308: totalExpenses[0]?.total || 0
                   totalExpenses |-> SumAmounts(matched),
                   \* src line 301: {$limit: 3}
                   categories |-> SubSeq(s, 1, Min(TopCategories, Len(s)))]
  /\ UNCHANGED Unchanged

----------------------------------------------------------------------------
(* The requests clients send *)

Bodies(amounts, dates, categories) ==
  [amount : amounts, description : {NoStr} \cup Descriptions, date : dates,
   category : categories, paymentMethod : {NoStr} \cup Payments]

Lunch == [amount |-> 1, description |-> "d", date |-> DateOf(1), category |-> "food",
          paymentMethod |-> "cash"]
Dinner == [Lunch EXCEPT !.amount = MaxAmount, !.date = DateOf(NumDates)]
Free == [Lunch EXCEPT !.amount = 0]

\* a body with no member, and the bodies that differ from Lunch in one member,
\* which is absent or has another value
NoBody == [amount |-> Undef, description |-> NoStr, date |-> Undef, category |-> NoStr,
           paymentMethod |-> NoStr]

AllBodies ==
  {NoBody}
    \cup {[Lunch EXCEPT !.amount = a] : a \in {Undef} \cup (0..MaxAmount)}
    \cup {[Lunch EXCEPT !.description = d] : d \in {NoStr} \cup Descriptions}
    \cup {[Lunch EXCEPT !.date = d] : d \in {Undef} \cup Dates}
    \cup {[Lunch EXCEPT !.category = c] : c \in {NoStr} \cup Categories}
    \cup {[Lunch EXCEPT !.paymentMethod = m] : m \in {NoStr} \cup Payments}

Complete(B) == {b \in B : ~MissingField(b)}

IdInputs == {NoIds, NotAnArray} \cup {IdArray(S) : S \in SUBSET Ids}

DateInputs == {Undef} \cup Dates

NoResponse == [op |-> "none", user |-> "uA", status |-> 0]

\* resp is written and never read by a handler: the response leaves the server
\* before the next step is taken
Quiet == resp = NoResponse

Deliver ==
  /\ resp # NoResponse
  /\ resp' = NoResponse
  /\ UNCHANGED Unchanged

Empty ==
  /\ nextId = 1
  /\ cache = {}
  /\ reqs = {}
  /\ started = 0
  /\ now = 0
  /\ ticks = 0
  /\ resp = NoResponse
  /\ served = {}

\* the collections that hold the documents 1..k, k <= MaxId: documents of uA made
\* from the bodies B, and documents of uB
Collections(B) ==
  UNION {{{NewExpense(i, f[i][1], f[i][2]) : i \in 1..k} :
            f \in [1..k -> ({"uA"} \X Complete(B)) \cup {<<"uB", Lunch>>}]} :
         k \in 0..MaxId}

----------------------------------------------------------------------------
(* SpecData: the handlers that do not use the cache, on every kind of body *)

DataAdd == Quiet /\ \E u \in Users, body \in AllBodies : addExpense(u, body)
DataUpdate ==
  Quiet /\ \E u \in Users, id \in Ids, body \in Complete(AllBodies) :
             updateExpense(u, id, body)
DataDelete == Quiet /\ \E u \in Users, id \in Ids : deleteExpense(u, id)
DataBulkDelete == Quiet /\ \E u \in Users, ids \in IdInputs : bulkDeleteExpenses(u, ids)
DataBulkUpload ==
  Quiet /\ \E u \in Users,
              file \in {NoFile, CsvFile(<<>>), CsvFile(<<Lunch>>), CsvFile(<<Lunch, Dinner>>)} :
             bulkUploadExpenses(u, file)
DataStats ==
  Quiet /\ \E u \in Users, sd \in DateInputs, ed \in DateInputs, today \in Dates,
              accepted \in BOOLEAN : getExpenseStatistics(u, sd, ed, today, accepted)
DataSummary == Quiet /\ \E u \in Users : getExpenseSummary(u)

DataNext ==
  \/ Deliver
  \/ DataAdd
  \/ DataUpdate
  \/ DataDelete
  \/ DataBulkDelete
  \/ DataBulkUpload
  \/ DataStats
  \/ DataSummary

DataInit == store = {} /\ Empty

SpecData == DataInit /\ [][DataNext]_vars

----------------------------------------------------------------------------
(* SpecList: one list query on every kind of query, over every collection,     *)
(* while a document is deleted between its two reads of the store              *)

ListBodies == Bodies({1}, {DateOf(1), DateOf(2)}, Categories)

MaxPage == 3
MaxLimit == 2

ListQueries ==
  {MkQuery(c, sd, ed, pm, pg, lim, FALSE) :
     c \in {NoStr, "food"}, sd \in {Undef, DateOf(1)}, ed \in {Undef, DateOf(1)},
     pm \in {NoStr, "card"}, pg \in {Undef} \cup (1..MaxPage),
     lim \in {Undef} \cup (1..MaxLimit)}

ListGet == Quiet /\ \E q \in ListQueries : CacheGet("uA", q, TRUE, 1)
ListFind == Quiet /\ \E r \in reqs : Find(r)
ListCount == Quiet /\ \E r \in reqs : Count(r)
ListSetEx == Quiet /\ \E r \in reqs : SetEx(r, TRUE)
ListDelete ==
  Quiet /\ (\E r \in reqs : r.pc = "count") /\ \E id \in Ids : deleteExpense("uA", id)

ListNext ==
  \/ Deliver
  \/ ListGet
  \/ ListFind
  \/ ListCount
  \/ ListSetEx
  \/ ListDelete

ListInit == store \in Collections(ListBodies) /\ Empty

SpecList == ListInit /\ [][ListNext]_vars

----------------------------------------------------------------------------
(* Spec: two users, every handler, one list query in flight at a time *)

SmallBodies == {Lunch, Free}
SmallFiles == {NoFile, CsvFile(<<Lunch>>)}

MaxLists == 2

Add == Quiet /\ \E u \in Users, body \in SmallBodies : addExpense(u, body)
Update == Quiet /\ \E u \in Users, id \in Ids : updateExpense(u, id, Dinner)
Delete == Quiet /\ \E u \in Users, id \in Ids : deleteExpense(u, id)
BulkDelete ==
  Quiet /\ \E u \in Users, ids \in {NoIds, IdArray(Ids)} : bulkDeleteExpenses(u, ids)
BulkUpload == Quiet /\ \E u \in Users, file \in SmallFiles : bulkUploadExpenses(u, file)
Get == Quiet /\ reqs = {} /\ \E u \in Users : CacheGet(u, NoQuery, TRUE, MaxLists)
FindDocs == Quiet /\ \E r \in reqs : Find(r)
CountDocs == Quiet /\ \E r \in reqs : Count(r)
Set == Quiet /\ \E r \in reqs : SetEx(r, TRUE)
Stats ==
  Quiet /\ \E u \in Users, accepted \in BOOLEAN :
             getExpenseStatistics(u, Undef, Undef, DateOf(NumDates), accepted)
Summary == Quiet /\ \E u \in Users : getExpenseSummary(u)

Next ==
  \/ Deliver
  \/ Add
  \/ Update
  \/ Delete
  \/ BulkDelete
  \/ BulkUpload
  \/ Get
  \/ FindDocs
  \/ CountDocs
  \/ Set
  \/ Stats
  \/ Summary

Init == store = {} /\ Empty

Spec == Init /\ [][Next]_vars

----------------------------------------------------------------------------
(* SpecTime: one user, list queries in flight at the same time, the clock *)

TimeIds == 1

TimeAdd == Quiet /\ nextId <= TimeIds /\ addExpense("uA", Lunch)
TimeUpdate == Quiet /\ \E id \in Ids : updateExpense("uA", id, Dinner)
TimeDelete == Quiet /\ \E id \in Ids : deleteExpense("uA", id)
TimeBulkDelete == Quiet /\ bulkDeleteExpenses("uA", IdArray(Ids))
TimeBulkUpload == Quiet /\ nextId <= TimeIds /\ bulkUploadExpenses("uA", CsvFile(<<Lunch>>))
TimeGet == Quiet /\ \E up \in BOOLEAN : CacheGet("uA", NoQuery, up, MaxStarted)
TimeFind == Quiet /\ \E r \in reqs : Find(r)
TimeCount == Quiet /\ \E r \in reqs : Count(r)
TimeSet == Quiet /\ \E r \in reqs, up \in BOOLEAN : SetEx(r, up)
TimePasses == Quiet /\ Tick

TimeNext ==
  \/ Deliver
  \/ TimeAdd
  \/ TimeUpdate
  \/ TimeDelete
  \/ TimeBulkDelete
  \/ TimeBulkUpload
  \/ TimeGet
  \/ TimeFind
  \/ TimeCount
  \/ TimeSet
  \/ TimePasses

TimeInit == store = {} /\ Empty

SpecTime == TimeInit /\ [][TimeNext]_vars

----------------------------------------------------------------------------
(* Properties of updateExpense, deleteExpense, bulkDeleteExpenses, addExpense *)

Mutations ==
  {"addExpense", "updateExpense", "deleteExpense", "bulkUploadExpenses",
   "bulkDeleteExpenses"}

\* C5: an update or a delete whose id names no document, or a document of
\* another user, answers 404 and leaves the collection as it was; one whose id
\* names a document of the caller answers 200 and changes (update) or removes
\* (delete) that document only, and an update keeps the document's id and owner.
C5_UpdateDeleteOwned ==
  [][(Quiet /\ resp'.op \in {"updateExpense", "deleteExpense"}) =>
       LET u == resp'.user
           id == resp'.id
           rest == {r \in store : r.id # id}
       IN IF \E r \in store : r.id = id /\ r.user = u
          THEN /\ resp'.status = 200
               /\ resp'.op = "deleteExpense" => store' = rest
               /\ resp'.op = "updateExpense" =>
                    /\ store' = rest \cup {resp'.expense}
                    /\ resp'.expense.id = id
                    /\ resp'.expense.user = u
          ELSE /\ resp'.status = 404
               /\ store' = store]_vars

\* C5, its case: an update refused with 404 because the document is another user's
C5_ForeignUpdateRefused ==
  /\ resp.op = "updateExpense"
  /\ resp.status = 404
  /\ \E r \in store : r.id = resp.id /\ r.user # resp.user

\* C6: a bulk delete with an array of at least one id removes exactly the
\* documents of the caller whose id is listed, reports how many they were, and
\* leaves every other document; with no list, no array or an empty array it
\* answers 400 and deletes nothing.
C6_BulkDeleteOwnedListed ==
  [][(Quiet /\ resp'.op = "bulkDeleteExpenses") =>
       LET u == resp'.user
           ids == resp'.ids
           gone == {r \in store : r.id \in ids.ids /\ r.user = u}
       IN IF ids.kind = "array" /\ ids.ids # {}
          THEN /\ resp'.status = 200
               /\ store' = store \ gone
               /\ resp'.deletedCount = Cardinality(gone)
          ELSE /\ resp'.status = 400
               /\ store' = store]_vars

\* C6, its case: a bulk delete that listed two ids, removed the caller's one
\* document and left the other user's listed document in place
C6_ForeignListedKept ==
  /\ resp.op = "bulkDeleteExpenses"
  /\ resp.status = 200
  /\ resp.deletedCount = 1
  /\ Cardinality(resp.ids.ids) = 2
  /\ \E r \in store : r.id \in resp.ids.ids /\ r.user # resp.user

\* a field the client did not send
Absent(body) ==
  \/ body.amount = Undef
  \/ body.description = NoStr
  \/ body.date = Undef
  \/ body.category = NoStr
  \/ body.paymentMethod = NoStr

\* C7: an add is refused with 400, the collection unchanged, exactly when one of
\* amount, description, date, category, paymentMethod is absent; with all five
\* present and any amount >= 0, 0 included, it creates exactly one document.
C7_AddRejectedIffAbsent ==
  [][\A u \in Users, body \in AllBodies :
       (Quiet /\ nextId <= MaxId /\ resp'.op = "addExpense" /\ addExpense(u, body)) =>
         IF Absent(body)
         THEN resp'.status = 400 /\ store' = store
         ELSE /\ resp'.status = 201
              /\ Cardinality(store') = Cardinality(store) + 1
              /\ store \subseteq store']_vars

----------------------------------------------------------------------------
(* Properties of getExpenseStatistics *)

\* C8: statistics over no matching document, when the aggregation answers, carry
\* totalExpenses = 0 and expensesByCategory and expensesByMonth present as empty
\* maps.
C8_EmptyStatistics ==
  (resp.op = "getExpenseStatistics" /\ resp.status = 200 /\ resp.matched = {}) =>
     /\ resp.stats.totalExpenses = 0
     /\ {"expensesByCategory", "expensesByMonth"} \subseteq resp.stats.keys
     /\ resp.stats.expensesByCategory = EmptyObject
     /\ resp.stats.expensesByMonth = EmptyObject

\* C9: statistics over matching documents give totalExpenses as the sum of their
\* amounts, expensesByCategory as the sum per category and expensesByMonth as the
\* sum per "year-month": the sum, not the last amount.
C9_StatisticsSums ==
  (resp.op = "getExpenseStatistics" /\ resp.status = 200 /\ resp.matched # {}) =>
     LET m == resp.matched
         cats == {r.category : r \in m}
         months == {MonthKey(r.date) : r \in m}
     IN /\ resp.stats.totalExpenses = SumAmounts(m)
        /\ DOMAIN resp.stats.expensesByCategory = cats
        /\ \A c \in cats :
             resp.stats.expensesByCategory[c] = SumAmounts({r \in m : r.category = c})
        /\ DOMAIN resp.stats.expensesByMonth = months
        /\ \A k \in months :
             resp.stats.expensesByMonth[k] = SumAmounts({r \in m : MonthKey(r.date) = k})

----------------------------------------------------------------------------
(* Properties of getExpenses, one query at a time *)

\* C3: a list query during which the cache GET or the cache SETEX fails, the
\* store being available, does not fail: it answers 200 with the page read from
\* the store, as it does after a miss.
C3_CacheFailureAbsorbed ==
  resp.op = "getExpenses" =>
     /\ resp.status = 200
     /\ resp.source \in {"cache", "store"}

\* the documents a list query of u selects: u's own, of the category and payment
\* method asked for, and inside the date range when both ends of it were sent
C10_Selected(S, u, q) ==
  {r \in S : /\ r.user = u
             /\ (q.category # NoStr => r.category = q.category)
             /\ (q.paymentMethod # NoStr => r.paymentMethod = q.paymentMethod)
             /\ ((q.startDate # Undef /\ q.endDate # Undef)
                   => (q.startDate <= r.date /\ r.date <= q.endDate))}

\* C10: a store-sourced list response for page p and limit L carries
\* totalPages = ceil(total / L) and page = p; when the owner's documents did not
\* change while the query ran, N documents being selected, it carries total = N
\* and exactly the documents ranked (p-1)L+1 .. min(pL, N) by date, newest first.
\* The date range selects only when startDate and endDate were both sent.
C10_Pagination ==
  (resp.op = "getExpenses" /\ resp.status = 200 /\ resp.source = "store") =>
     LET p == PageOf(resp.q)
         L == LimitOf(resp.q)
         page == resp.payload.expenses
         total == resp.payload.total
         sel == C10_Selected(store, resp.user, resp.q)
         N == Cardinality(sel)
         first == (p - 1) * L + 1
         last == Min(p * L, N)
     IN /\ resp.payload.page = p
        /\ resp.payload.totalPages * L >= total
        /\ (resp.payload.totalPages - 1) * L < total
        /\ resp.staleAt = Undef =>
             /\ total = N
             /\ Len(page) = Max(0, last - first + 1)
             /\ \A i \in 1..Len(page) :
                  /\ \E r \in sel : page[i] = DocToJSON(r)
                  /\ \A j \in 1..Len(page) : i < j =>
                       /\ page[i] # page[j]
                       /\ page[i].date.iso >= page[j].date.iso
                  \* page[i] has rank first + i - 1
                  /\ Cardinality({r \in sel : r.date > page[i].date.iso}) <= first + i - 2
                  /\ Cardinality({r \in sel : r.date >= page[i].date.iso}) >= first + i - 1

\* C10, its case: page 2 of two selected documents with limit 1, read from the
\* store, and a date range half given that does not select
C10_SecondPage ==
  /\ resp.op = "getExpenses"
  /\ resp.status = 200
  /\ resp.source = "store"
  /\ resp.staleAt = Undef
  /\ resp.q.page = 2
  /\ resp.q.limit = 1
  /\ resp.q.startDate = DateOf(1)
  /\ resp.q.endDate = Undef
  /\ resp.payload.total = 2
  /\ Len(resp.payload.expenses) = 1
  /\ resp.payload.expenses[1].date.iso = DateOf(1)
  /\ \E r \in store : r.user = resp.user /\ r.date > DateOf(1)

----------------------------------------------------------------------------
(* Owner isolation *)

\* C1: a list response, read from the store or from the cache, carries only
\* documents of the requesting user, and a statistics or summary response is
\* computed from documents of the requesting user only.
C1_OwnerIsolation ==
  /\ (resp.op = "getExpenses" /\ resp.status = 200) =>
        \A i \in 1..Len(resp.payload.expenses) :
           resp.payload.expenses[i].user = resp.user
  /\ (resp.op = "getExpenseStatistics" /\ resp.status = 200) =>
        /\ \A r \in resp.matched : r.user = resp.user
        /\ resp.matched # {} =>
             resp.stats.totalExpenses = SumAmounts({r \in store : r.user = resp.user})
  /\ resp.op = "getExpenseSummary" =>
        /\ \A r \in resp.matched : r.user = resp.user
        /\ resp.totalExpenses = SumAmounts({r \in store : r.user = resp.user})
        /\ \A i \in 1..Len(resp.categories) :
             resp.categories[i].total =
               SumAmounts({r \in store : r.user = resp.user
                                         /\ r.category = resp.categories[i].name})

\* C1, its case: a user is answered from the cache with a document of their own
\* while the collection also holds a document of the other user
C1_CachedPageOfOwner ==
  /\ resp.op = "getExpenses"
  /\ resp.status = 200
  /\ resp.source = "cache"
  /\ Len(resp.payload.expenses) > 0
  /\ \E r \in store : r.user # resp.user

----------------------------------------------------------------------------
(* The cache over time *)

\* C2 as stated: once a list query was answered from the store, a later query of
\* the same user with the same parameters, issued less than 300 seconds later,
\* reads nothing from the store and carries the very page the first one carried,
\* whatever was changed in between.
C2_IdenticalWithinTTL ==
  /\ \A r \in reqs : r.priors = {}
  /\ (resp.op = "getExpenses" /\ resp.source # "redis.get" /\ resp.priors # {}) =>
        /\ resp.source = "cache"
        /\ resp.priors = {resp.payload}

\* C2 amended: a list query whose cache lookup answers less than 300 seconds after
\* a store-sourced response for the same user and parameters was cached reads
\* nothing from the store and carries the page that was written to the cache
\* last under that key.
C2_LatestWithinTTL ==
  /\ \A r \in reqs : r.priors = {}
  /\ (resp.op = "getExpenses" /\ resp.source # "redis.get" /\ resp.priors # {}) =>
        /\ resp.source = "cache"
        /\ resp.latest = {resp.payload}

\* C2, its case: a query answered from the cache, inside the 300 seconds, with a
\* page that no longer is what the store holds
C2_StalePageServed ==
  /\ resp.op = "getExpenses"
  /\ resp.source = "cache"
  /\ resp.priors # {}
  /\ resp.payload.total # Cardinality({r \in store : r.user = resp.user})

\* C4 as stated: a list query issued more than 300 seconds after a change of the
\* user's documents carries a page read from the store at or after that change.
C4_StaleAtMostTTL ==
  (resp.op = "getExpenses" /\ resp.status = 200 /\ resp.staleAt # Undef) =>
     resp.at <= resp.staleAt + TTL

\* C4 amended: add, update, delete, bulk upload and bulk delete leave the cache as
\* it is, and a page answered from the cache was written to it less than 300
\* seconds before the query was issued: a page that a change of the documents
\* made stale is served for less than 300 seconds after its cache write, which
\* the populating query did at or after that change.
C4_StaleUntilExpiry ==
  [][/\ (Quiet /\ resp'.op \in Mutations) => cache' = cache
     /\ (resp'.op = "getExpenses" /\ resp'.source = "cache") =>
           /\ resp'.at < resp'.setAt + TTL
           /\ resp'.staleAt # Undef =>
                /\ resp'.findAt <= resp'.staleAt
                /\ resp'.staleAt <= resp'.setAt]_vars

\* C4, its case: a page answered from the cache more than 300 seconds after the
\* change that made it stale
C4_StaleBeyondTTL ==
  /\ resp.op = "getExpenses"
  /\ resp.source = "cache"
  /\ resp.staleAt # Undef
  /\ resp.at > resp.staleAt + TTL

====
